---- MODULE Spec2Model ----
(***************************************************************************)
(* Model of src/app.py: a Flask webhook that relays WhatsApp messages from *)
(* WATI into Zoho Bigin.  Every webhook request is served by its own       *)
(* thread (app.run serves threaded), the threads share the module-level    *)
(* ZOHO_ACCESS_TOKEN, and nothing locks it.  A step of the model is one    *)
(* access to that global together with the thread-local code around it;    *)
(* the upstream servers answer each HTTP call with any status.  Under      *)
(* SpecCrm the CRM also stores the contacts it accepts for a phone and     *)
(* answers a 200 search with them; under SpecBoth the renewals of every    *)
(* thread are followed.                                                    *)
(*                                                                         *)
(* Scope of the environment: request.get_json() yields a JSON object or    *)
(* nothing, field values are strings, and upstream answers carry JSON      *)
(* bodies of the shape the code reads (transport errors and unparsable     *)
(* bodies, which raise inside requests, are not modelled).                 *)
(***************************************************************************)
EXTENDS Integers, Sequences, FiniteSets

VARIABLES
    ZOHO_ACCESS_TOKEN,  \* the process-wide credential (app.py:22), None or a token
    issued,             \* number of access tokens the OAuth server has handed out
    pc,                 \* per request thread: the line it is about to execute
    data,               \* per thread: the handler's local data (line 82)
    token_data,         \* per thread: the token a refresh POST returned (line 40)
    ret,                \* per thread: what the refresh called on line 78 returned
    contact_id,         \* per thread: result of search_zoho_contact
    reply,              \* history: what wati_webhook returned to the observed request
    lastStored,         \* history: the token line 41 wrote most recently
    entry,              \* history: what line 77 of the observed request read
    request,            \* history: the JSON body of the observed request
    log,                \* history: the outbound HTTP calls of the observed request
    auths,              \* history: the tokens of its latest CRM call and refresh
    renewals,           \* history: per followed thread, the tokens its request's
                        \* refreshes after a 401 were given
    bigin               \* the CRM: per phone whose contacts a behaviour keeps, the
                        \* contacts stored and whether a search went unanswered

vars == <<ZOHO_ACCESS_TOKEN, issued, pc, data, token_data, ret, contact_id, reply,
          lastStored, entry, request, log, auths, renewals, bigin>>

\* ------------------------------------------------------------------ bounds
\* Tokens the OAuth server issues before it only answers non-200.
MaxTok == 3

\* Contacts the CRM stores per phone before it declines further creates.
MaxContacts == 2

\* ------------------------------------------------------------ value spaces
None == 0
Threads == {"t1", "t2"}
\* The history variables follow one request thread.  The threads run the same
\* code and are interchangeable, so what holds of the observed one holds of
\* each; the other thread is its concurrent environment.  log keeps every
\* outbound call of the request: what was sent, whether the Authorization
\* header was built from a token, the status and the body.  auths keeps which
\* tokens they were, for the calls since the latest first attempt of a CRM
\* call began: the token of each header and the token each refresh got.
\* renewals is a lighter history that a behaviour keeps for the threads it
\* starts with (none, or all of them).
Observed == {"t1"}

Keys == {"text", "waId", "senderName"}
\* The message of the specification's scenario.
Complete == [text |-> "Hello", waId |-> "911234567890", senderName |-> "Asha"]

\* Python dicts a webhook body can parse to: the complete message, the
\* message with one field absent or empty, the empty object, and an object
\* with an unrelated key only.
Dicts ==
    {Complete}
    \cup {[k \in Keys \ {m} |-> Complete[k]] : m \in Keys}
    \cup {[Complete EXCEPT ![m] = ""] : m \in Keys}
    \cup {[k \in {} |-> ""], [k \in {"other"} |-> "x"]}
EmptyDict == [k \in {} |-> ""]
NoPayload == [present |-> FALSE, fields |-> EmptyDict]
Payloads == {NoPayload} \cup {[present |-> TRUE, fields |-> f] : f \in Dicts}

NoContact == ""
\* Result lists of a search answer: no match, several matches.
SearchLists == {<< >>, <<"zc_42", "zc_7">>}
SearchBodies ==
    {[hasData |-> FALSE, data |-> << >>]} \cup {[hasData |-> TRUE, data |-> l] : l \in SearchLists}
NoBody == [hasData |-> FALSE, data |-> << >>]
\* Identifiers the CRM gives the contacts it stores, in order.
ContactIds == <<"zc_1", "zc_2", "zc_3">>
NoContacts == [contacts |-> << >>, missed |-> FALSE]

RefreshStatuses == {200, 400}
SearchStatuses == {200, 401, 500}
PostStatuses == {201, 401, 500}

NoReply == [status |-> 0]

\* --------------------------------------------------------------- helpers
Last(s) == s[Len(s)]

\* Python truthiness of the values the handler tests.
Truthy(tok) == tok # None
NotData(d) == ~d.present \/ DOMAIN d.fields = {}
Get(d, k) == IF k \in DOMAIN d.fields THEN d.fields[k] ELSE ""
MissingFieldsNoSender(d) == Get(d, "waId") = "" \/ Get(d, "text") = ""
MissingFields(d) ==
    Get(d, "waId") = "" \/ Get(d, "text") = "" \/ Get(d, "senderName") = ""

\* Line 77: the handler refreshes lazily only when no credential is stored.
NeedsRefreshAlways(tok) == TRUE
NeedsRefresh(tok) == ~Truthy(tok)

\* Lines 132-137: the contact id search_zoho_contact returns for a response.
SearchResultLast(status, body) ==
    IF status = 200 /\ body.hasData /\ Len(body.data) > 0
    THEN body.data[Len(body.data)] ELSE NoContact
SearchResult(status, body) ==
    IF status = 200 /\ body.hasData /\ Len(body.data) > 0
    THEN body.data[1] ELSE NoContact

\* Lines 148-154 and 181-187: the records posted to the CRM.
ContactDataSwapped(name, phone, description) ==
    [Last_Name |-> description, Phone |-> phone, Description |-> name]
ContactData(name, phone, description) ==
    [Last_Name |-> name, Phone |-> phone, Description |-> description]
NoteData(cid, message) ==
    [Parent_Id |-> cid, Note_Title |-> "WhatsApp Message", Note_Content |-> message]

\* The JSON body of a create/note answer.  The CRM names the answer, so two
\* answers of one request are never the same body.
PostBody(op, attempt, status) == [op |-> op, attempt |-> attempt, code |-> status]

\* Line 116 and lines 80, 88, 97: what the handler returns.
OkReplyByStatus(zoho_response) ==
    [status |-> IF zoho_response.code = 201 THEN 200 ELSE 502,
     message |-> "Webhook received successfully", zoho_response |-> zoho_response]
OkReply(zoho_response) ==
    [status |-> 200, message |-> "Webhook received successfully",
     zoho_response |-> zoho_response]
ErrorReply(status, error) == [status |-> status, error |-> error]

\* Lines 126/158/191: a 401 on the first attempt, and only there, leads to
\* the refresh and the retry; the code has no loop.
RetriesOn401Always(attempt, status) == status = 401
RetriesOnAnyFailure(attempt, status) == attempt = 1 /\ status \in {401, 500}
RetriesOn401(attempt, status) == attempt = 1 /\ status = 401

\* Lines 107-114 and 116: where the handler goes after each CRM call.
HandlerNextFallthrough(stage, cid) ==
    CASE stage = "search" -> IF cid # NoContact THEN "note_l177" ELSE "create_l144"
      [] stage = "create" -> "note_l177"
      [] stage = "note" -> "done"
HandlerNext(stage, cid) ==
    CASE stage = "search" -> IF cid # NoContact THEN "note_l177" ELSE "create_l144"
      [] stage = "create" -> "done"
      [] stage = "note" -> "done"

\* ------------------------------------------------------------------- Init
\* Module import leaves the credential None (line 22); run as a script, line
\* 205 stores the result of one refresh before the server starts.
Start(followed, phones) ==
    /\ \E ok \in BOOLEAN :
        /\ ZOHO_ACCESS_TOKEN = IF ok THEN 1 ELSE None
        /\ issued = IF ok THEN 1 ELSE 0
        /\ lastStored = IF ok THEN 1 ELSE None
    /\ pc = [t \in Threads |-> "idle"]
    /\ data = [t \in Threads |-> NoPayload]
    /\ token_data = [t \in Threads |-> None]
    /\ ret = [t \in Threads |-> None]
    /\ contact_id = [t \in Threads |-> NoContact]
    /\ reply = [t \in Observed |-> NoReply]
    /\ entry = [t \in Observed |-> None]
    /\ request = [t \in Observed |-> NoPayload]
    /\ log = [t \in Observed |-> << >>]
    /\ auths = [t \in Observed |-> << >>]
    /\ renewals = [t \in followed |-> {}]
    /\ bigin = [p \in phones |-> NoContacts]

\* Init keeps the history of the observed request only and lets the CRM
\* answer anything; InitBoth also follows the renewals of every thread;
\* InitCrm has a CRM that stores the contacts of the scenario's phone and
\* answers a search with what it stored.
Init == Start({}, {})
InitBoth == Start(Threads, {})
InitCrm == Start({}, {Complete.waId})

\* ---------------------------------------------------------------- actions
Goto(t, l) == pc' = [pc EXCEPT ![t] = l]
Logged(t, e, tok, first) ==
    /\ IF t \in Observed
       THEN /\ log' = [log EXCEPT ![t] = Append(@, e)]
            /\ auths' = [auths EXCEPT ![t] = IF first THEN <<tok>> ELSE Append(@, tok)]
       ELSE UNCHANGED <<log, auths>>
    /\ IF /\ t \in DOMAIN renewals
          /\ e.op = "refresh" /\ e.status = 200 /\ pc[t] # "l78_call"
       THEN renewals' = [renewals EXCEPT ![t] = @ \cup {tok}]
       ELSE UNCHANGED renewals
Returned(t, tok) == ret' = [ret EXCEPT ![t] = tok]

\* refresh_access_token up to line 40 or 46, called by thread t: one POST to
\* the OAuth server; a 200 carries a new token (line 40), any other status
\* leaves the global alone (line 46 returns None).  The server never issues
\* the same token twice: tokens are numbered as they are issued.
refresh_access_token(t, granted_pc, failed_pc) ==
    /\ \E status \in RefreshStatuses :
        IF status = 200
        THEN /\ issued < MaxTok
             /\ issued' = issued + 1
             /\ token_data' = [token_data EXCEPT ![t] = issued + 1]
             /\ Logged(t, [op |-> "refresh", status |-> 200], issued + 1, FALSE)
             /\ Goto(t, granted_pc)
        ELSE /\ UNCHANGED <<issued, token_data>>
             /\ Logged(t, [op |-> "refresh", status |-> status], None, FALSE)
             /\ Goto(t, failed_pc)
    /\ UNCHANGED <<ZOHO_ACCESS_TOKEN, lastStored>>

\* Where each caller of refresh_access_token goes on after a successful
\* refresh: line 78 takes the return value (line 43), the CRM calls rebuild
\* their header (lines 129, 161, 194).
AfterStoreRestart(l) ==
    CASE l = "l78_l41" -> "l78_l43"
      [] l = "search_l41" -> "search_l122"
      [] l = "create_l41" -> "create_l144"
      [] l = "note_l41" -> "note_l177"
AfterStore(l) ==
    CASE l = "l78_l41" -> "l78_l43"
      [] l = "search_l41" -> "search_l129"
      [] l = "create_l41" -> "create_l161"
      [] l = "note_l41" -> "note_l194"

\* A return of the handler: its locals go out of scope.
Return(t, r) ==
    /\ IF t \in Observed THEN reply' = [reply EXCEPT ![t] = r] ELSE UNCHANGED reply
    /\ data' = [data EXCEPT ![t] = NoPayload]
    /\ contact_id' = [contact_id EXCEPT ![t] = NoContact]
    /\ Goto(t, "done")

\* The body d is the one the observed request carries.
Carries(t, d) ==
    IF t \in Observed THEN request' = [request EXCEPT ![t] = d] ELSE UNCHANGED request

\* Lines 82-97 of wati_webhook: data = request.get_json() and the payload
\* checks (thread-local), for the body d of the request.
Validate(t, d) ==
    IF NotData(d)
    THEN Return(t, ErrorReply(400, "No data received"))
    ELSE IF MissingFields(d)
    THEN Return(t, ErrorReply(400, "Missing phone number, message, or sender name"))
    ELSE /\ data' = [data EXCEPT ![t] = d]
         /\ Goto(t, "search_l122")
         /\ UNCHANGED <<reply, contact_id>>

\* A webhook delivery arrives: Flask hands the request to a thread.  The
\* body is input that the handler reads into its state on line 82 only; the
\* model draws it in the step that decides the answer (line 82, or the 401
\* of line 80, which is the answer whatever the body is).
Receive(t) ==
    /\ pc[t] = "idle"
    /\ Goto(t, "l77")
    /\ UNCHANGED <<ZOHO_ACCESS_TOKEN, lastStored, issued, data, token_data, ret, contact_id, reply,
                   entry, request, log, auths, renewals, bigin>>

\* Line 77: read the global; with a credential go on to the payload checks.
wati_webhook_l77(t) ==
    /\ pc[t] = "l77"
    /\ IF NeedsRefresh(ZOHO_ACCESS_TOKEN)
       THEN Goto(t, "l78_call") /\ UNCHANGED <<reply, data, contact_id, request>>
       ELSE \E d \in Payloads : Carries(t, d) /\ Validate(t, d)
    /\ IF t \in Observed
       THEN entry' = [entry EXCEPT ![t] = ZOHO_ACCESS_TOKEN]
       ELSE UNCHANGED entry
    /\ UNCHANGED <<ZOHO_ACCESS_TOKEN, lastStored, issued, token_data, ret, log, auths,
                   renewals, bigin>>

\* Line 78, right-hand side: the lazy refresh.  A failed refresh returns None.
wati_webhook_l78_call(t) ==
    /\ pc[t] = "l78_call"
    /\ refresh_access_token(t, "l78_l41", "l78_store")
    /\ UNCHANGED <<data, ret, contact_id, reply, entry, request, bigin>>

\* Line 41: the refresh stores the token it was given in the global.
refresh_access_token_l41(t) ==
    /\ pc[t] \in {"l78_l41", "search_l41", "create_l41", "note_l41"}
    /\ ZOHO_ACCESS_TOKEN' = token_data[t]
    /\ lastStored' = token_data[t]
    /\ token_data' = [token_data EXCEPT ![t] = None]
    /\ Goto(t, AfterStore(pc[t]))
    /\ UNCHANGED <<issued, data, ret, contact_id, reply, entry, request, log, auths,
                   renewals, bigin>>

\* Line 43, reached from line 78: a successful refresh returns what the
\* global holds when it returns.  (The other callers drop the return value.)
refresh_access_token_l43(t) ==
    /\ pc[t] = "l78_l43"
    /\ Returned(t, ZOHO_ACCESS_TOKEN)
    /\ Goto(t, "l78_store")
    /\ UNCHANGED <<ZOHO_ACCESS_TOKEN, lastStored, issued, data, token_data, contact_id, reply, entry,
                   request, log, auths, renewals, bigin>>

\* Line 78, assignment: the global takes what the refresh returned.
wati_webhook_l78_store(t) ==
    /\ pc[t] = "l78_store"
    /\ ZOHO_ACCESS_TOKEN' = ret[t]
    /\ Returned(t, None)
    /\ Goto(t, "l79")
    /\ UNCHANGED <<lastStored, issued, data, token_data, contact_id, reply, entry, request,
                   log, auths, renewals, bigin>>

\* Lines 79-97: read the global again; without a credential answer 401.
wati_webhook_l79(t) ==
    /\ pc[t] = "l79"
    /\ \E d \in Payloads :
        /\ Carries(t, d)
        /\ IF ~Truthy(ZOHO_ACCESS_TOKEN)
           THEN Return(t, ErrorReply(401, "Failed to authenticate with Zoho"))
           ELSE Validate(t, d)
    /\ UNCHANGED <<ZOHO_ACCESS_TOKEN, lastStored, issued, token_data, ret, entry, log, auths,
                   renewals, bigin>>

\* One attempt of search_zoho_contact (lines 122-124, or 129-130 when it is
\* the retry): build the header from the global, GET, and either go to the
\* refresh (126) or return the contact id (132-137) to the handler (105-114).
SearchAnswers(status, phone) ==
    IF status # 200 THEN {NoBody}
    ELSE IF phone \in DOMAIN bigin
    THEN {[hasData |-> TRUE, data |-> bigin[phone].contacts]}
    ELSE SearchBodies
SearchAttempt(t, attempt) ==
    \E status \in SearchStatuses :
    \E body \in SearchAnswers(status, Get(data[t], "waId")) :
        /\ IF /\ Get(data[t], "waId") \in DOMAIN bigin
              /\ ~RetriesOn401(attempt, status) /\ status # 200
           THEN bigin' = [bigin EXCEPT ![Get(data[t], "waId")].missed = TRUE]
           ELSE UNCHANGED bigin
        /\ Logged(t, [op |-> "search", authed |-> Truthy(ZOHO_ACCESS_TOKEN),
                      phone |-> Get(data[t], "waId"), status |-> status, body |-> body],
                  ZOHO_ACCESS_TOKEN, attempt = 1)
        /\ IF RetriesOn401(attempt, status)
           THEN Goto(t, "search_l128") /\ UNCHANGED contact_id
           ELSE /\ contact_id' = [contact_id EXCEPT ![t] = SearchResult(status, body)]
                /\ Goto(t, HandlerNext("search", SearchResult(status, body)))
        /\ UNCHANGED <<ZOHO_ACCESS_TOKEN, lastStored, issued, data, token_data, ret, reply, entry,
                       request>>

search_zoho_contact_l122(t) == pc[t] = "search_l122" /\ SearchAttempt(t, 1)

search_zoho_contact_l128(t) ==
    /\ pc[t] = "search_l128"
    /\ refresh_access_token(t, "search_l41", "search_l129")
    /\ UNCHANGED <<data, ret, contact_id, reply, entry, request, bigin>>

search_zoho_contact_l129(t) == pc[t] = "search_l129" /\ SearchAttempt(t, 2)

\* One attempt of a POST to the CRM (create: 143-156 or 161-162; note:
\* 175-189 or 194-195): header from the global, POST, then the refresh on a
\* first 401, else response.json() goes back to the handler, which returns
\* it in a 200 (line 116).
Stored(contacts) == Append(contacts, ContactIds[Len(contacts) + 1])
PostAttempt(t, op, record, attempt, refresh_pc) ==
    \E status \in PostStatuses :
        /\ IF op = "create" /\ status = 201 /\ record.Phone \in DOMAIN bigin
           THEN /\ Len(bigin[record.Phone].contacts) < MaxContacts
                /\ bigin' = [bigin EXCEPT ![record.Phone].contacts = Stored(@)]
           ELSE UNCHANGED bigin
        /\ Logged(t, [op |-> op, authed |-> Truthy(ZOHO_ACCESS_TOKEN), record |-> record,
                      status |-> status, body |-> PostBody(op, attempt, status)],
                  ZOHO_ACCESS_TOKEN, attempt = 1)
        /\ IF RetriesOn401(attempt, status)
           THEN Goto(t, refresh_pc) /\ UNCHANGED <<reply, data, contact_id>>
           ELSE IF HandlerNext(op, contact_id[t]) = "done"
           THEN Return(t, OkReply(PostBody(op, attempt, status)))
           ELSE Goto(t, HandlerNext(op, contact_id[t])) /\ UNCHANGED <<reply, data, contact_id>>
        /\ UNCHANGED <<ZOHO_ACCESS_TOKEN, lastStored, issued, token_data, ret, entry, request>>

CreateRecord(t) ==
    ContactData(Get(data[t], "senderName"), Get(data[t], "waId"), Get(data[t], "text"))
NoteRecord(t) == NoteData(contact_id[t], Get(data[t], "text"))

create_zoho_contact_l144(t) ==
    pc[t] = "create_l144" /\ PostAttempt(t, "create", CreateRecord(t), 1, "create_l160")

create_zoho_contact_l160(t) ==
    /\ pc[t] = "create_l160"
    /\ refresh_access_token(t, "create_l41", "create_l161")
    /\ UNCHANGED <<data, ret, contact_id, reply, entry, request, bigin>>

create_zoho_contact_l161(t) ==
    pc[t] = "create_l161" /\ PostAttempt(t, "create", CreateRecord(t), 2, "create_l160")

add_message_to_notes_l177(t) ==
    pc[t] = "note_l177" /\ PostAttempt(t, "note", NoteRecord(t), 1, "note_l193")

add_message_to_notes_l193(t) ==
    /\ pc[t] = "note_l193"
    /\ refresh_access_token(t, "note_l41", "note_l194")
    /\ UNCHANGED <<data, ret, contact_id, reply, entry, request, bigin>>

add_message_to_notes_l194(t) ==
    pc[t] = "note_l194" /\ PostAttempt(t, "note", NoteRecord(t), 2, "note_l193")

\* The response is sent and the thread is free for the next delivery.
Finish(t) ==
    /\ pc[t] = "done"
    /\ Goto(t, "idle")
    /\ IF t \in Observed
       THEN /\ reply' = [reply EXCEPT ![t] = NoReply]
            /\ log' = [log EXCEPT ![t] = << >>]
            /\ auths' = [auths EXCEPT ![t] = << >>]
            /\ entry' = [entry EXCEPT ![t] = None]
            /\ request' = [request EXCEPT ![t] = NoPayload]
       ELSE UNCHANGED <<reply, log, auths, entry, request>>
    /\ IF t \in DOMAIN renewals
       THEN renewals' = [renewals EXCEPT ![t] = {}]
       ELSE UNCHANGED renewals
    /\ UNCHANGED <<ZOHO_ACCESS_TOKEN, lastStored, issued, data, token_data, ret, contact_id,
                   bigin>>

\* One step of thread t: the line of wati_webhook, or of the function it
\* called, that t is about to execute.
Step(t) ==
    \/ Receive(t)
    \/ wati_webhook_l77(t)
    \/ wati_webhook_l78_call(t)
    \/ refresh_access_token_l41(t)
    \/ refresh_access_token_l43(t)
    \/ wati_webhook_l78_store(t)
    \/ wati_webhook_l79(t)
    \/ search_zoho_contact_l122(t)
    \/ search_zoho_contact_l128(t)
    \/ search_zoho_contact_l129(t)
    \/ create_zoho_contact_l144(t)
    \/ create_zoho_contact_l160(t)
    \/ create_zoho_contact_l161(t)
    \/ add_message_to_notes_l177(t)
    \/ add_message_to_notes_l193(t)
    \/ add_message_to_notes_l194(t)
    \/ Finish(t)

Next == \E t \in Threads : Step(t)

Spec == Init /\ [][Next]_vars
SpecBoth == InitBoth /\ [][Next]_vars
SpecCrm == InitCrm /\ [][Next]_vars

\* ------------------------------------------------------------- properties
\* Reading the history of the observed request o.
CrmOps == {"search", "create", "note"}
PcsOf(X) ==
    CASE X = "search" -> {"search_l122", "search_l128", "search_l41", "search_l129"}
      [] X = "create" -> {"create_l144", "create_l160", "create_l41", "create_l161"}
      [] X = "note" -> {"note_l177", "note_l193", "note_l41", "note_l194"}
Calls(o, X) == {i \in 1..Len(log[o]) : log[o][i].op = X}
CrmCalls(o) == {i \in 1..Len(log[o]) : log[o][i].op \in CrmOps}
FirstOf(o, X) == CHOOSE i \in Calls(o, X) : \A j \in Calls(o, X) : i <= j
LastOf(o, X) == CHOOSE i \in Calls(o, X) : \A j \in Calls(o, X) : j <= i
\* The refresh calls made between the first and the last attempt of call X.
RefreshesFor(o, X) ==
    {j \in Calls(o, "refresh") : FirstOf(o, X) < j /\ j < LastOf(o, X)}
\* Call X was made and has returned to the handler.
Over(o, X) == pc[o] \notin PcsOf(X) /\ Calls(o, X) # {}
\* ... and its first attempt was answered 401.
Rejected(o, X) == Over(o, X) /\ log[o][FirstOf(o, X)].status = 401
\* ... and so was its second attempt.
RetryRejected(o, X) ==
    /\ Len(log[o]) >= 3
    /\ Rejected(o, X)
    /\ Cardinality(Calls(o, X)) >= 2
    /\ log[o][FirstOf(o, X) + 2].status = 401
Answered(o) == pc[o] = "done"
AbsentAtEntry(o) == entry[o] = None
\* The payload, read off the request rather than off the handler's checks.
EmptyOrAbsent(d) == ~d.present \/ DOMAIN d.fields = {}
LacksField(d) == \E k \in Keys : k \notin DOMAIN d.fields \/ d.fields[k] = ""
\* The final search response of the request.
FinalSearch(o) == log[o][LastOf(o, "search")]
Found(o) ==
    /\ FinalSearch(o).status = 200
    /\ FinalSearch(o).body.hasData
    /\ Len(FinalSearch(o).body.data) > 0
NotFound(o) ==
    \/ FinalSearch(o).status # 200
    \/ FinalSearch(o).body.hasData /\ Len(FinalSearch(o).body.data) = 0
\* What a call handed back to the handler, and a response's parsed body.
ReturnedToHandler(o, X) ==
    IF X = "search" THEN [id |-> contact_id[o]] ELSE [json |-> reply[o].zoho_response]
ResponseJson(e) == [json |-> e.body]

\* C1: a CRM call (search, create, note) whose first attempt is answered 401
\* makes exactly one refresh call and is reissued exactly once, the retry
\* carrying the token that refresh obtained and never the rejected one.
C1_RetryCarriesRefreshedToken ==
    \A o \in Observed : \A X \in CrmOps :
        (Rejected(o, X) /\ Last(log[o]).op = X) =>
            LET i == FirstOf(o, X) IN
            /\ Calls(o, X) = {i, i + 2}
            /\ RefreshesFor(o, X) = {i + 1}
            /\ Len(auths[o]) = 3
            /\ auths[o][3] = auths[o][2]
            /\ auths[o][3] # auths[o][1]

\* C2 as stated: when the retry of a CRM call is answered 401 too, there is
\* no second refresh and no third attempt, and the call hands that response
\* back to the handler as its result.
C2_SecondUnauthorizedReturned ==
    \A o \in Observed : \A X \in CrmOps :
        RetryRejected(o, X) =>
            /\ Cardinality(Calls(o, X)) = 2
            /\ Cardinality(RefreshesFor(o, X)) = 1
            /\ ReturnedToHandler(o, X) = ResponseJson(log[o][LastOf(o, X)])

\* C2 amended: when the retry of a CRM call is answered 401 too, there is no
\* second refresh and no third attempt and nothing is raised: create and note
\* hand the body of that second 401 back and the handler answers 200 with
\* it; search hands back None (no contact), so the handler goes on to create.
C2_SecondUnauthorizedFinal ==
    \A o \in Observed :
        /\ RetryRejected(o, "search") =>
            /\ Cardinality(Calls(o, "search")) = 2
            /\ Cardinality(RefreshesFor(o, "search")) = 1
            /\ contact_id[o] = NoContact
            /\ Calls(o, "note") = {}
            /\ pc[o] \in PcsOf("create") \cup {"done"}
            /\ Answered(o) => Calls(o, "create") # {}
        /\ \A X \in {"create", "note"} :
            (pc[o] \notin PcsOf(X) /\ log[o] # << >> /\ Last(log[o]).op = X
                    /\ RetryRejected(o, X)) =>
                /\ Cardinality(Calls(o, X)) = 2
                /\ Cardinality(RefreshesFor(o, X)) = 1
                /\ Answered(o)
                /\ reply[o].status = 200
                /\ reply[o].zoho_response = log[o][LastOf(o, X)].body
                /\ reply[o].zoho_response.code = 401
C2_Witness ==
    \E o \in Observed :
        Answered(o) /\ RetryRejected(o, "search") /\ RetryRejected(o, "create")

\* C3 as stated: a request whose payload lacks text, waId or senderName (or
\* has it empty) is answered 400 with no CRM call, whatever the credential.
C3_MissingFieldsAlways400 ==
    \A o \in Observed :
        (Answered(o) /\ LacksField(request[o])) =>
            reply[o].status = 400 /\ CrmCalls(o) = {}

\* C3 amended: such a request makes no CRM call and is answered 400 or 401,
\* 401 only when no credential was stored at entry; with a credential stored
\* at entry it is answered 400.
C3_MissingFieldsNoCrmCall ==
    \A o \in Observed :
        (Answered(o) /\ LacksField(request[o])) =>
            /\ CrmCalls(o) = {}
            /\ reply[o].status \in {400, 401}
            /\ reply[o].status = 401 => AbsentAtEntry(o)
C3_Witness ==
    \E o \in Observed :
        /\ Answered(o) /\ LacksField(request[o]) /\ ~EmptyOrAbsent(request[o])
        /\ reply[o].status = 401

C5_FoundContactGetsNote ==
    \A o \in Observed :
        (Answered(o) /\ Calls(o, "search") # {} /\ Found(o)) =>
            /\ Calls(o, "create") = {}
            /\ Calls(o, "note") # {}
            /\ \A i \in Calls(o, "note") :
                /\ log[o][i].record.Parent_Id = FinalSearch(o).body.data[1]
                /\ log[o][i].record.Note_Content = request[o].fields["text"]
C5_Witness ==
    \E o \in Observed :
        /\ Answered(o) /\ Calls(o, "search") # {} /\ Found(o)
        /\ Cardinality(Calls(o, "search")) = 2
        /\ Len(FinalSearch(o).body.data) > 1
        /\ Cardinality(Calls(o, "note")) = 2

\* C6: when the final search response is a 200 with an empty result list or
\* any non-200 status, the request posts create-contact with Last_Name =
\* senderName, Phone = waId, Description = text, and makes no note call.
C6_MissingContactIsCreated ==
    \A o \in Observed :
        (Answered(o) /\ Calls(o, "search") # {} /\ NotFound(o)) =>
            /\ Calls(o, "note") = {}
            /\ Calls(o, "create") # {}
            /\ \A i \in Calls(o, "create") :
                /\ log[o][i].record.Last_Name = request[o].fields["senderName"]
                /\ log[o][i].record.Phone = request[o].fields["waId"]
                /\ log[o][i].record.Description = request[o].fields["text"]
C6_Witness ==
    \E o \in Observed :
        /\ Answered(o) /\ RetryRejected(o, "search")
        /\ Cardinality(Calls(o, "create")) = 2

C8_ValidationOrder ==
    \A o \in Observed :
        Answered(o) =>
            IF AbsentAtEntry(o) /\ log[o][1].status # 200
            THEN reply[o].status = 401 /\ CrmCalls(o) = {}
            ELSE IF EmptyOrAbsent(request[o]) \/ LacksField(request[o])
            THEN reply[o].status = 400 /\ CrmCalls(o) = {}
            ELSE Calls(o, "search") # {}

\* C9: every search attempt of a request precedes its create or note call,
\* a request never makes both, a validated request makes one of them, and a
\* note goes only to an identifier the request's final search returned.
C9_ResolveThenOneWrite ==
    \A o \in Observed :
        log[o] # << >> =>
            LET searches == Calls(o, "search")
                creates == Calls(o, "create")
                notes == Calls(o, "note")
            IN  /\ \A i \in creates \cup notes :
                    /\ searches # {}
                    /\ \A j \in searches : j < i
                /\ creates = {} \/ notes = {}
                /\ (Answered(o) /\ searches # {}) => (creates # {} \/ notes # {})
                /\ \A i \in notes :
                    \E k \in 1..Len(FinalSearch(o).body.data) :
                        log[o][i].record.Parent_Id = FinalSearch(o).body.data[k]
C9_Witness ==
    \E o \in Observed :
        /\ Answered(o)
        /\ Cardinality(Calls(o, "search")) = 2
        /\ Cardinality(Calls(o, "note")) = 2

\* C10: a refresh call that is answered non-200 leaves the process-wide
\* credential as it was, through the POST and through the caller's handling
\* of what the refresh returned; a stored token never becomes absent by it.
FailedRefreshStep(o) ==
    \/ /\ pc[o] \in {"l78_call", "search_l128", "create_l160", "note_l193"}
       /\ pc'[o] # pc[o]
       /\ Last(log'[o]).status # 200
    \/ /\ pc[o] = "l78_store"
       /\ pc'[o] # pc[o]
       /\ Last(log[o]).status # 200
C10_FailedRefreshKeepsCredential ==
    [][\A o \in Observed :
        FailedRefreshStep(o) => ZOHO_ACCESS_TOKEN' = ZOHO_ACCESS_TOKEN]_vars

\* C11: when two concurrent requests both had a CRM call answered 401 and
\* both refreshed successfully, the retried call of each carries a token one
\* of those refreshes was given and never the rejected one, and once both
\* have finished the credential is the token the last refresh store wrote.
Renewed(t) == t \in DOMAIN renewals /\ renewals[t] # {}
C11_RetryCarriesARenewal ==
    \A o \in Observed : \A X \in CrmOps :
        (/\ Rejected(o, X) /\ Last(log[o]).op = X
         /\ Len(auths[o]) = 3 /\ auths[o][2] # None
         /\ \E t \in Threads \ {o} : Renewed(t)) =>
            /\ auths[o][3] \in UNION {renewals[t] : t \in Threads}
            /\ auths[o][3] # auths[o][1]
C11_LastStoreWins ==
    (\A t \in Threads : pc[t] = "done" /\ Renewed(t)) => ZOHO_ACCESS_TOKEN = lastStored
C11_ConcurrentRenewals == C11_RetryCarriesARenewal /\ C11_LastStoreWins

\* C12: a request makes a refresh call only as its first outbound call when
\* no credential was stored at its entry, or right after one of its CRM
\* calls was answered 401; a request that entered with a stored credential
\* and saw no 401 makes no refresh call; and a request writes the
\* credential only after a refresh call of its own.
RefreshOnDemand(o) ==
    \A i \in Calls(o, "refresh") :
        IF i = 1
        THEN AbsentAtEntry(o)
        ELSE log[o][i - 1].op \in CrmOps /\ log[o][i - 1].status = 401
NoRejection(o) == \A i \in CrmCalls(o) : log[o][i].status # 401
QuietRequest(o) ==
    (Answered(o) /\ ~AbsentAtEntry(o) /\ NoRejection(o)) => Calls(o, "refresh") = {}
WritesAfterOwnRefresh(o) ==
    (pc'[o] # pc[o] /\ ZOHO_ACCESS_TOKEN' # ZOHO_ACCESS_TOKEN) => Calls(o, "refresh") # {}
C12_RefreshOnlyOnDemand ==
    /\ [](\A o \in Observed : RefreshOnDemand(o) /\ QuietRequest(o))
    /\ [][\A o \in Observed : WritesAfterOwnRefresh(o)]_vars
C12_Witness ==
    \E o \in Observed :
        /\ Answered(o) /\ ~AbsentAtEntry(o) /\ NoRejection(o)
        /\ Calls(o, "search") # {} /\ Calls(o, "note") # {}
        /\ Last(log[o]).status = 500
        /\ Calls(o, "refresh") = {}

\* C13: every CRM call of a request, first attempt or retry, carries an
\* Authorization header built from a stored token, never from None.
C13_HeaderFromStoredToken ==
    \A o \in Observed : \A i \in CrmCalls(o) : log[o][i].authed

\* C14: with a CRM that stores the contacts created for a phone and answers
\* every search for it with all of them, requests carrying that phone have
\* at most one create-contact call accepted (201), in whatever order or
\* interleaving they arrive; every later message is attached as a note.
C14_OneContactPerPhone ==
    \A p \in DOMAIN bigin : ~bigin[p].missed => Len(bigin[p].contacts) <= 1

\* C15: every request ends with a response after at most 3 refresh calls,
\* 2 search attempts and 2 attempts of create-contact or attach-note, 7
\* outbound calls in all, whatever the upstream servers answer: until it
\* has answered, the request always has a next step to take.
Running(o) == pc[o] \notin {"idle", "done"}
C15_BoundedOutboundCalls ==
    \A o \in Observed :
        /\ Cardinality(Calls(o, "refresh")) <= 3
        /\ Cardinality(Calls(o, "search")) <= 2
        /\ Cardinality(Calls(o, "create") \cup Calls(o, "note")) <= 2
        /\ Len(log[o]) <= 7
        /\ Running(o) => ENABLED Step(o)
        /\ Answered(o) => reply[o].status \in {200, 400, 401}
C15_Witness ==
    \E o \in Observed : Answered(o) /\ Len(log[o]) = 7 /\ reply[o].status = 200

====
